---- MODULE Spec2Model ----
(***************************************************************************)
(* Model of the receiver-side latency monitor of roc-toolkit               *)
(* (roc_audio/latency_monitor.cpp) and of the receiver that owns one       *)
(* monitor per session (roc/receiver.h).                                   *)
(*                                                                         *)
(* Number representation.                                                  *)
(*  - packet::timestamp_t is an unsigned 32-bit integer.  A value u is     *)
(*    held as the signed 32-bit integer with the same bit pattern          *)
(*    (u for u < 2^31, u - 2^32 otherwise), so -1 stands for 2^32 - 1.     *)
(*    U32Add, U32Ge and timestamp_diff compute on that representation      *)
(*    exactly what the 32-bit machine operations compute.                  *)
(*  - packet::timestamp_diff_t is a signed 32-bit integer, held as is.     *)
(*  - core::nanoseconds_t values are held as integers (nanoseconds).       *)
(*  - float scaling coefficients are held in fixed point, in units of      *)
(*    1/CoeffOne (CoeffOne stands for 1.0f).                               *)
(***************************************************************************)
EXTENDS Integers, Sequences, FiniteSets, TLC

\* ------------------------------------------------------------------------
\* Bounds of the model (not program constants).

\* largest small stream position / timestamp drawn as an input
MaxPos == 2
\* largest distance tail - head drawn for the incoming queue, in timestamps
MaxNiq == 3
\* loop iterations of update_scaling_ followed within one update() call
MaxFeeds == 4
\* largest deviation from 1.0 of a frequency estimator output (1/CoeffOne)
MaxFeDev == 10

\* ------------------------------------------------------------------------
\* Program constants.

\* core::Second, in nanoseconds
Second == 1000000000
\* 1.0f in fixed point
CoeffOne == 1000
\* largest and smallest packet::timestamp_diff_t (int32_t)
MaxI32 == 2147483647
MinI32 == -MaxI32 - 1

\* ------------------------------------------------------------------------
\* 32-bit timestamp arithmetic.

\* a + b on uint32_t operands (wraps modulo 2^32); never leaves the int32 range
U32Add(a, b) ==
    IF a >= 0 /\ b >= 0
    THEN IF a > MaxI32 - b THEN (a - MaxI32 - 1) + (b - MaxI32 - 1) ELSE a + b
    ELSE IF a < 0 /\ b < 0
         THEN IF a < MinI32 - b THEN (a + MaxI32 + 1) + (b + MaxI32 + 1) ELSE a + b
         ELSE a + b

\* a >= b on uint32_t operands
U32Ge(a, b) == IF (a >= 0) = (b >= 0) THEN a >= b ELSE a < 0

\* packet::timestamp_diff(a, b): (int32_t)(a - b), the wrap-safe signed distance
timestamp_diff(a, b) ==
    IF a >= 0 /\ b < 0
    THEN IF a > MaxI32 + b THEN (a - MaxI32 - 1) - (b + MaxI32 + 1) ELSE a - b
    ELSE IF a < 0 /\ b > 0
         THEN IF a < MinI32 + b THEN (a + MaxI32 + 1) - (b - MaxI32 - 1) ELSE a - b
         ELSE a - b

\* ------------------------------------------------------------------------
\* Sample-spec conversions.

RECURSIVE Gcd(_, _)
Gcd(a, b) == IF b = 0 THEN a ELSE Gcd(b, a % b)

Abs(x) == IF x < 0 THEN -x ELSE x

\* n / d rounded to the nearest integer, halves away from zero (roundf), d > 0
RoundDiv(n, d) ==
    LET q == Abs(n) \div d
        r == Abs(n) % d
        m == IF r >= d - r THEN q + 1 ELSE q
    IN IF n < 0 THEN -m ELSE m

\* SampleSpec::ns_2_rtp_timestamp: ns * rate / Second, rounded
ns_2_rtp_timestamp(rate, ns) ==
    LET g == Gcd(Second, rate)
    IN RoundDiv(ns * (rate \div g), Second \div g)

\* ------------------------------------------------------------------------
\* Configurations and inputs the model draws from.

\* duration of one timestamp at 8000 Hz, in nanoseconds
Tick == Second \div 8000

\* LatencyMonitorConfig, the target latency, the two sample rates, and the
\* collaborators handed to the constructor:
\*   resampler  - the ResamplerReader pointer is non-null
\*   fe_alloc   - allocation of the FreqEstimator succeeds
\*   scaling_ok - the resampler accepts set_scaling(1.0f)
AllConfigs ==
    [ target_latency     : {0, Tick},
      min_latency        : {-Tick, Tick, 2 * Tick},
      max_latency        : {0, 2 * Tick},
      fe_enable          : BOOLEAN,
      fe_update_interval : {0, (2 * Tick) \div 5, 2 * Tick},
      max_scaling_delta  : {-5, 5},
      in_rate            : {0, 8000},
      out_rate           : {0, 44100},
      resampler          : BOOLEAN,
      fe_alloc           : BOOLEAN,
      scaling_ok         : BOOLEAN ]

\* the configurations a monitor is constructed from. The constructor
\* converts the latencies and fe_update_interval with the input rate and
\* stores max_scaling_delta whatever fe_enable says. With the estimator
\* disabled it allocates no estimator and does not call init_scaling_: one
\* outcome of each of these two is kept.
Configs ==
    { c \in AllConfigs :
        c.fe_enable \/ (c.fe_alloc /\ c.scaling_ok) }

\* stream positions and queue/depacketizer timestamps: small ones and the
\* ones next to the 32-bit wrap (-1 is 2^32 - 1, MaxI32 + 1 = MinI32 is 2^31)
StreamPositions == (0 .. MaxPos) \cup {-3, -1}
Heads == {0, -2}
NiqDistances == ((-2) .. MaxNiq) \cup {MaxI32}

\* outputs of FreqEstimator::freq_coeff()
FeOutputs == {CoeffOne - MaxFeDev, CoeffOne, CoeffOne + MaxFeDev}

\* frame capture timestamps and wall-clock readings, in nanoseconds
CaptureTimestamps == {0, 8 * Tick}
ClockReadings == {9 * Tick, 10 * Tick}

\* ------------------------------------------------------------------------
\* State.

VARIABLES
    cfg,               \* the constructor's arguments
    pc,                \* "idle", "loop" (inside update_scaling_'s loop), "panic"
    valid_, fe_,       \* fe_: the estimator is allocated
    update_interval_, update_pos_, has_update_pos_, freq_coeff_,
    niq_latency_, e2e_latency_, has_niq_latency_, has_e2e_latency_,
    target_latency_, min_latency_, max_latency_, max_scaling_delta_,
    started,           \* Depacketizer::is_started()
    scaling,           \* what ResamplerReader::set_scaling() was last called with
    fed,               \* FreqEstimator::update() was called at least once
    limiter,           \* rate_limiter_ and the clock it reads
    call               \* the call in progress or last completed, with its inputs

lmvars == << limiter, cfg, pc, valid_, fe_, update_interval_, update_pos_, has_update_pos_,
             freq_coeff_, niq_latency_, e2e_latency_, has_niq_latency_,
             has_e2e_latency_, target_latency_, min_latency_, max_latency_,
             max_scaling_delta_, started, scaling, fed, call >>

\* The receiver: the session router and the mixer.
VARIABLES
    sessions,          \* sender key -> its session, or NoSession
    session_count,     \* sender key -> session objects the router holds for it
    rc_pc,             \* "idle", or "frame" while receiver read() runs
    snapshot,          \* the sessions the running read() mixes, in order
    cursor,            \* steps of the running read() done so far
    frame,             \* the samples the running or last read() has produced
    frame_size,        \* frame.num_samples of the running or last read()
    event              \* what the last step did

rcvars == << sessions, session_count, rc_pc, snapshot, cursor, frame, frame_size, event >>

\* peer::Context
VARIABLES
    ctx_pc,            \* "none" (no context), "alive", "destroyed", "panic"
    ctx_valid,         \* network_loop_.valid() && control_loop_.valid()
    ref_counter_,
    increfs, decrefs,  \* incref() and decref() calls that returned
    ctx_call           \* the last call on the context and what it returned

ctxvars == << ctx_pc, ctx_valid, ref_counter_, increfs, decrefs, ctx_call >>

\* audio::PoisonWriter
VARIABLES
    pw_pc,             \* "none" (no writer), "idle", "loop" (inside write()'s loop)
    pw_in,             \* the samples of the frame as write() received it
    pw_frame,          \* the samples of that frame now
    pw_n,              \* the loop counter n of write()
    pw_seen,           \* the frames writer_.write() was given by the running
                       \* or last write(), as it saw them
    pw_calls           \* write() calls made so far

pwvars == << pw_pc, pw_in, pw_frame, pw_n, pw_seen, pw_calls >>

vars == << lmvars, rcvars, ctxvars, pwvars >>

\* The record of a call:
\*   op        - "none", "stats", "read", "update"
\*   ret       - "none", "pending", "true", "false", "panic"
\*   update(): sp, latest, tail, head are its inputs (see Update), each
\*     recorded when the call can read it: sp only with an estimator;
\*     had_niq  - has_niq_latency_ after update_niq_latency_
\*     checked  - check_latency_ was called
\*     rate     - update_scaling_ was called
\*     first    - has_update_pos_ was false when update_scaling_ was called
\*     pos0     - update_pos_ when update_scaling_ was called (0 if first)
\*     feeds    - calls of fe_->update() made so far by this call
\*     sample   - the latency sample those calls pass
\*     accept   - resampler_->set_scaling() was called and returned true
\*     reported - report_latency_ emitted the latency record
\*   read(): reader_ok, cts, now are its inputs (see Read)
NoCall ==
    [ op |-> "none", ret |-> "none",
      sp |-> 0, latest |-> FALSE, tail |-> 0, head |-> 0,
      had_niq |-> FALSE, checked |-> FALSE, rate |-> FALSE,
      first |-> FALSE, pos0 |-> 0,
      feeds |-> 0, sample |-> 0, accept |-> FALSE, reported |-> FALSE,
      reader_ok |-> FALSE, cts |-> 0, now |-> 0 ]

\* ------------------------------------------------------------------------
\* LatencyMonitor::LatencyMonitor

\* a validation that lets a zero target latency through
LatenciesValid_zero_target(c) ==
    ~ ( \/ c.target_latency < c.min_latency
        \/ c.target_latency > c.max_latency
        \/ c.target_latency < 0 )

\* the latency part of the configuration passes validation
LatenciesValid(c) ==
    ~ ( \/ c.target_latency < c.min_latency
        \/ c.target_latency > c.max_latency
        \/ c.target_latency <= 0 )

\* LatencyMonitor::init_scaling_ gets as far as calling set_scaling(1.0f)
InitScalingCalls(c) == ~ (c.in_rate = 0 \/ c.out_rate = 0)

\* LatencyMonitor::init_scaling_ returns true
init_scaling_(c) == InitScalingCalls(c) /\ c.scaling_ok

\* the constructor panics: estimator enabled with a null resampler
ConstructPanics(c) ==
    /\ LatenciesValid(c)
    /\ c.fe_enable /\ c.fe_update_interval > 0
    /\ ~c.resampler

\* a constructor that allocates the estimator whatever fe_enable says
ConstructFe_regardless(c) ==
    /\ LatenciesValid(c)
    /\ c.fe_update_interval > 0
    /\ c.resampler /\ c.fe_alloc

\* the constructor allocates the estimator (fe_ is non-null afterwards)
ConstructFe(c) ==
    /\ LatenciesValid(c)
    /\ c.fe_enable /\ c.fe_update_interval > 0
    /\ c.resampler /\ c.fe_alloc

\* the value of valid_ the constructor leaves
ConstructValid(c) ==
    /\ LatenciesValid(c)
    /\ c.fe_enable =>
         /\ c.fe_update_interval > 0
         /\ c.resampler
         /\ c.fe_alloc
         /\ init_scaling_(c)

\* the monitor the constructor leaves, given its arguments
Constructed(c) ==
        /\ cfg = c
        /\ pc = IF ConstructPanics(c) THEN "panic" ELSE "idle"
        /\ valid_ = ConstructValid(c)
        /\ fe_ = ConstructFe(c)
        /\ update_interval_ = ns_2_rtp_timestamp(c.in_rate, c.fe_update_interval)
        /\ update_pos_ = 0
        /\ has_update_pos_ = FALSE
        /\ freq_coeff_ = 0
        /\ niq_latency_ = 0
        /\ e2e_latency_ = 0
        /\ has_niq_latency_ = FALSE
        /\ has_e2e_latency_ = FALSE
        /\ target_latency_ = ns_2_rtp_timestamp(c.in_rate, c.target_latency)
        /\ min_latency_ = ns_2_rtp_timestamp(c.in_rate, c.min_latency)
        /\ max_latency_ = ns_2_rtp_timestamp(c.in_rate, c.max_latency)
        /\ max_scaling_delta_ = c.max_scaling_delta
        /\ started = FALSE
        /\ scaling = IF ConstructFe(c) /\ InitScalingCalls(c)
                     THEN [called |-> TRUE, coeff |-> CoeffOne]
                     ELSE [called |-> FALSE, coeff |-> 0]
        /\ fed = FALSE
        /\ call = NoCall

\* rate_limiter_ with a clock that is not followed: allow() may give either
\* answer.  With the clock followed (on):
\*   time    - clock ticks since construction
\*   tokens  - the limiter has a token to give
\*   reports - latency records emitted so far
LimiterOff == [ on |-> FALSE, time |-> 0, tokens |-> 0, reports |-> 0 ]
LimiterOn == [ on |-> TRUE, time |-> 0, tokens |-> 1, reports |-> 0 ]

\* the answers rate_limiter_.allow() can give
AllowOutcomes == IF limiter.on THEN {limiter.tokens > 0} ELSE BOOLEAN

\* a report_latency_ that does not ask the limiter
report_latency_always(allow) == TRUE

\* LatencyMonitor::report_latency_ emits a record
report_latency_(allow) == IF ~allow THEN FALSE ELSE TRUE

\* the limiter after allow() gave its answer and report_latency_ returned
Limited(allow, emitted) ==
    IF ~limiter.on THEN limiter
    ELSE [limiter EXCEPT !.tokens = IF allow THEN 0 ELSE @,
                         !.reports = IF emitted THEN @ + 1 ELSE @]

LMInit == limiter = LimiterOff /\ \E c \in Configs : Constructed(c)

\* ------------------------------------------------------------------------
\* LatencyMonitor: helpers of read() and update()

\* an is_valid that takes every monitor for valid
is_valid_always == TRUE

\* LatencyMonitor::is_valid
is_valid == valid_

\* roc_panic_if(!is_valid()): the call aborts before touching anything
Panic(op) ==
    /\ pc' = "panic"
    /\ call' = [NoCall EXCEPT !.op = op, !.ret = "panic"]
    /\ UNCHANGED << cfg, valid_, fe_, update_interval_, update_pos_,
                    has_update_pos_, freq_coeff_, niq_latency_, e2e_latency_,
                    has_niq_latency_, has_e2e_latency_, target_latency_,
                    min_latency_, max_latency_, max_scaling_delta_, started,
                    scaling, fed, limiter >>

\* an update_niq_latency_ that subtracts the timestamps as wide unsigned
\* numbers and narrows the result with saturation
update_niq_latency_wide(niq, has, st, latest, tail, head) ==
    IF ~st THEN [niq |-> niq, has |-> has]
    ELSE IF ~latest THEN [niq |-> niq, has |-> has]
    ELSE [niq |-> IF (tail >= 0) = (head >= 0) THEN tail - head
                  ELSE IF tail < 0 THEN MaxI32 ELSE MinI32,
          has |-> TRUE]

\* LatencyMonitor::update_niq_latency_: the reading (niq_latency_,
\* has_niq_latency_) it leaves, given the reading before the call
update_niq_latency_(niq, has, st, latest, tail, head) ==
    IF ~st THEN [niq |-> niq, has |-> has]
    ELSE IF ~latest THEN [niq |-> niq, has |-> has]
    ELSE [niq |-> timestamp_diff(tail, head), has |-> TRUE]

\* LatencyMonitor::update_e2e_latency_: the reading (e2e_latency_,
\* has_e2e_latency_) it leaves, given the reading before the call
update_e2e_latency_(e2e, has, capture_ts, current_ts) ==
    IF capture_ts = 0 THEN [e2e |-> e2e, has |-> has]
    ELSE [e2e |-> ns_2_rtp_timestamp(cfg.in_rate, current_ts - capture_ts),
          has |-> TRUE]

\* a read() that reports success whatever the frame reader did
read_returns_always(reader_ok) == TRUE

\* the value LatencyMonitor::read returns
read_returns(reader_ok) == IF ~reader_ok THEN FALSE ELSE TRUE

\* a bounds check with exclusive bounds
check_latency_exclusive(latency) ==
    IF latency <= min_latency_ THEN FALSE
    ELSE IF latency >= max_latency_ THEN FALSE
    ELSE TRUE

\* a bounds check without the lower bound
check_latency_upper_only(latency) ==
    IF latency > max_latency_ THEN FALSE
    ELSE TRUE

\* LatencyMonitor::check_latency_
check_latency_(latency) ==
    IF latency < min_latency_ THEN FALSE
    ELSE IF latency > max_latency_ THEN FALSE
    ELSE TRUE

\* an update() that ignores the resampler's answer
update_returns_ignoring_resampler(has, niq, accept) ==
    IF ~has THEN TRUE
    ELSE IF ~check_latency_(niq) THEN FALSE
    ELSE TRUE

\* the value LatencyMonitor::update returns, given the reading
\* update_niq_latency_ left and the resampler's answer, once the loop of
\* update_scaling_ has ended
update_returns(has, niq, accept) ==
    IF ~has THEN TRUE
    ELSE IF ~check_latency_(niq) THEN FALSE
    ELSE IF fe_ THEN accept
    ELSE TRUE

\* an update_scaling_ that feeds the estimator the e2e reading when there
\* is one
FeSample_e2e(latency) ==
    IF has_e2e_latency_ THEN e2e_latency_
    ELSE IF latency < 0 THEN 0 ELSE latency

\* a sample taken from the reading as it is
FeSample_raw(latency) == latency

\* the latency sample update_scaling_ feeds to the estimator
FeSample(latency) == IF latency < 0 THEN 0 ELSE latency

\* update_scaling_'s loop condition
LoopCondition(stream_position) == U32Ge(stream_position, update_pos_)

Min(a, b) == IF b < a THEN b ELSE a
Max(a, b) == IF a < b THEN b ELSE a

\* the coefficient update_scaling_ hands to the resampler
TrimCoeff(coeff) ==
    Max(Min(coeff, CoeffOne + max_scaling_delta_), CoeffOne - max_scaling_delta_)

\* ------------------------------------------------------------------------
\* LatencyMonitor::stats

Stats ==
    /\ UNCHANGED << rcvars, ctxvars, pwvars >>
    /\ pc = "idle"
    /\ IF ~is_valid
       THEN Panic("stats")
       ELSE /\ call' = [NoCall EXCEPT !.op = "stats", !.ret = "true"]
            /\ UNCHANGED << cfg, pc, valid_, fe_, update_interval_, update_pos_,
                            has_update_pos_, freq_coeff_, niq_latency_,
                            e2e_latency_, has_niq_latency_, has_e2e_latency_,
                            target_latency_, min_latency_, max_latency_,
                            max_scaling_delta_, started, scaling, fed,
                            limiter >>

\* ------------------------------------------------------------------------
\* LatencyMonitor::read
\*   reader_ok  - frame_reader_.read(frame) succeeds
\*   capture_ts - frame.capture_timestamp() of the frame it returned
\*   current_ts - core::timestamp(core::ClockUnix)

Read(reader_ok, capture_ts, current_ts) ==
    /\ UNCHANGED << rcvars, ctxvars, pwvars >>
    /\ pc = "idle"
    /\ IF ~is_valid
       THEN Panic("read")
       ELSE /\ IF ~reader_ok
               THEN /\ call' = [NoCall EXCEPT
                                  !.op = "read",
                                  !.ret = IF read_returns(reader_ok)
                                          THEN "true" ELSE "false"]
                    /\ UNCHANGED << e2e_latency_, has_e2e_latency_ >>
               ELSE /\ LET r == update_e2e_latency_(e2e_latency_, has_e2e_latency_,
                                                     capture_ts, current_ts)
                       IN /\ e2e_latency_' = r.e2e
                          /\ has_e2e_latency_' = r.has
                    /\ call' = [NoCall EXCEPT
                                  !.op = "read",
                                  !.ret = IF read_returns(reader_ok)
                                          THEN "true" ELSE "false",
                                  !.reader_ok = TRUE, !.cts = capture_ts,
                                  !.now = IF capture_ts = 0 THEN 0 ELSE current_ts]
            /\ UNCHANGED << cfg, pc, valid_, fe_, update_interval_, update_pos_,
                            has_update_pos_, freq_coeff_, niq_latency_,
                            has_niq_latency_, target_latency_, min_latency_,
                            max_latency_, max_scaling_delta_, started, scaling,
                            fed, limiter >>

\* ------------------------------------------------------------------------
\* LatencyMonitor::update, up to the loop of update_scaling_
\*   stream_position - the argument
\*   st     - depacketizer_.is_started()
\*   latest - incoming_queue_.latest() is non-null
\*   tail   - latest_packet->end()
\*   head   - depacketizer_.next_timestamp()
\* rate_limiter_.allow() in report_latency_ is drawn inside.

Update(stream_position, st, latest, tail, head) ==
    /\ UNCHANGED << rcvars, ctxvars, pwvars >>
    /\ pc = "idle"
    /\ started => st
    /\ IF ~is_valid
       THEN Panic("update")
       ELSE
         LET r    == update_niq_latency_(niq_latency_, has_niq_latency_,
                                         st, latest, tail, head)
             niq  == r.niq
             has  == r.has
             base == [NoCall EXCEPT
                        !.op = "update",
                        !.sp = IF fe_ THEN stream_position ELSE 0,
                        !.latest = latest,
                        !.head = IF st THEN head ELSE 0,
                        !.tail = IF st /\ latest THEN tail ELSE 0,
                        !.had_niq = has]
         IN /\ started' = st
            /\ niq_latency_' = niq
            /\ has_niq_latency_' = has
            /\ IF ~has
               THEN /\ call' = [base EXCEPT
                                  !.ret = IF update_returns(has, niq, TRUE)
                                          THEN "true" ELSE "false"]
                    /\ UNCHANGED << pc, update_pos_, has_update_pos_, limiter >>
               ELSE IF ~check_latency_(niq)
               THEN /\ call' = [base EXCEPT
                                  !.checked = TRUE,
                                  !.ret = IF update_returns(has, niq, TRUE)
                                          THEN "true" ELSE "false"]
                    /\ UNCHANGED << pc, update_pos_, has_update_pos_, limiter >>
               ELSE IF fe_
               THEN /\ pc' = "loop"
                    /\ UNCHANGED limiter
                    /\ has_update_pos_' = TRUE
                    /\ update_pos_' = IF has_update_pos_ THEN update_pos_
                                      ELSE stream_position
                    /\ call' = [base EXCEPT !.checked = TRUE, !.rate = TRUE,
                                            !.first = ~has_update_pos_,
                                            !.pos0 = IF has_update_pos_
                                                     THEN update_pos_ ELSE 0,
                                            !.sample = FeSample(niq),
                                            !.ret = "pending"]
               ELSE /\ \E allow \in AllowOutcomes :
                         /\ call' = [base EXCEPT
                                       !.checked = TRUE,
                                       !.reported = report_latency_(allow),
                                       !.ret = IF update_returns(has, niq, TRUE)
                                               THEN "true" ELSE "false"]
                         /\ limiter' = Limited(allow, report_latency_(allow))
                    /\ UNCHANGED << pc, update_pos_, has_update_pos_ >>
            /\ UNCHANGED << cfg, valid_, fe_, update_interval_, freq_coeff_,
                            e2e_latency_, has_e2e_latency_, target_latency_,
                            min_latency_, max_latency_, max_scaling_delta_,
                            scaling, fed >>

\* one iteration of update_scaling_'s loop: fe_->update(latency) and the
\* advance of update_pos_
UpdateFeed ==
    /\ UNCHANGED << rcvars, ctxvars, pwvars >>
    /\ pc = "loop"
    /\ LoopCondition(call.sp)
    /\ call.feeds < MaxFeeds
    /\ fed' = TRUE
    /\ update_pos_' = U32Add(update_pos_, update_interval_)
    /\ call' = [call EXCEPT !.feeds = @ + 1]
    /\ UNCHANGED << cfg, pc, valid_, fe_, update_interval_, has_update_pos_,
                    freq_coeff_, niq_latency_, e2e_latency_, has_niq_latency_,
                    has_e2e_latency_, target_latency_, min_latency_,
                    max_latency_, max_scaling_delta_, started, scaling,
                    limiter >>

\* the rest of update_scaling_ and of update(), once the loop has ended
\*   coeff  - fe_->freq_coeff()
\*   accept - resampler_->set_scaling(freq_coeff_) succeeds
\*   allow  - rate_limiter_.allow()
UpdateFinish(coeff, accept, allow) ==
    /\ UNCHANGED << rcvars, ctxvars, pwvars >>
    /\ pc = "loop"
    /\ ~LoopCondition(call.sp)
    /\ accept => allow \in AllowOutcomes
    /\ pc' = "idle"
    /\ freq_coeff_' = TrimCoeff(coeff)
    /\ scaling' = [called |-> TRUE, coeff |-> TrimCoeff(coeff)]
    /\ LET ret == IF update_returns(has_niq_latency_, niq_latency_, accept)
                  THEN "true" ELSE "false"
       IN call' = IF accept
                  THEN [call EXCEPT !.accept = TRUE,
                                    !.reported = report_latency_(allow),
                                    !.ret = ret]
                  ELSE [call EXCEPT !.ret = ret]
    /\ limiter' = IF accept THEN Limited(allow, report_latency_(allow))
                  ELSE limiter
    /\ UNCHANGED << cfg, valid_, fe_, update_interval_, update_pos_,
                    has_update_pos_, niq_latency_, e2e_latency_,
                    has_niq_latency_, has_e2e_latency_, target_latency_,
                    min_latency_, max_latency_, max_scaling_delta_, started,
                    fed >>

\* ------------------------------------------------------------------------
\* The latency monitor under every sequence of calls.

\* the inputs of update() that the call reads: the head only when the
\* depacketizer is started, the tail only when there is a latest packet
UpdateInputs ==
    { i \in [ st : BOOLEAN, latest : BOOLEAN, head : Heads, d : NiqDistances ] :
        /\ i.st \/ i.head = 0
        /\ (i.st /\ i.latest) \/ i.d = 0 }

\* the inputs of read(): the clock is read only for a non-zero capture timestamp
ReadInputs ==
    { i \in [ ok : BOOLEAN, cts : CaptureTimestamps, now : ClockReadings ] :
        /\ i.ok \/ i.cts = 0
        /\ i.cts # 0 \/ i.now = 9 * Tick }

\* the stream positions update() is called with: only update_scaling_ reads
\* the position, so one value is drawn for a monitor without estimator
UpdatePositions == IF fe_ THEN StreamPositions ELSE {0}

Next ==
    \/ Stats
    \/ \E i \in ReadInputs : Read(i.ok, i.cts, i.now)
    \/ \E sp \in UpdatePositions, i \in UpdateInputs :
           Update(sp, i.st, i.latest, U32Add(i.head, i.d), i.head)
    \/ UpdateFeed
    \/ \E coeff \in FeOutputs, accept \in BOOLEAN, allow \in BOOLEAN :
           UpdateFinish(coeff, accept, allow)

\* what the receiver did last:
\*   op    - "dispatch", "begin", "deliver", or "none" for any other step
\*   key   - (dispatch) the packet's sender
\*   had   - (dispatch) the sender had a session
\*   room  - (dispatch) the router held fewer than max_sessions sessions
\*   torn  - (dispatch) the sender's last session was destroyed with its
\*           reading out of the latency bounds
\*   count - (deliver) the sessions of the frame's snapshot
\*           (begin) the sessions the scan destroyed for idleness alone
NoEvent == [ op |-> "none", key |-> "", had |-> FALSE, room |-> FALSE,
             torn |-> FALSE, count |-> 0 ]

\* the receiver before it is opened
RcClosed ==
    /\ sessions = << >>
    /\ session_count = << >>
    /\ rc_pc = "closed"
    /\ snapshot = << >>
    /\ cursor = 0
    /\ frame = << >>
    /\ frame_size = 0
    /\ event = NoEvent

\* no context
CtxNone ==
    /\ ctx_pc = "none"
    /\ ctx_valid = FALSE
    /\ ref_counter_ = 0
    /\ increfs = 0
    /\ decrefs = 0
    /\ ctx_call = [op |-> "none", ret |-> FALSE]

\* no poison writer
PwNone ==
    /\ pw_pc = "none"
    /\ pw_in = << >>
    /\ pw_frame = << >>
    /\ pw_n = 0
    /\ pw_seen = << >>
    /\ pw_calls = 0

Init == LMInit /\ RcClosed /\ CtxNone /\ PwNone


Spec == Init /\ [][Next]_vars

\* ------------------------------------------------------------------------
\* The receiver: session router and mixer.
\*
\* Packets arrive on the network context (Dispatch) at any moment.  The
\* audio context runs receiver read() in steps: RcBegin scans the sessions
\* and takes the snapshot, RcRead reads and mixes one session of the
\* snapshot, RcUpdate runs one session's latency monitor, RcDeliver hands
\* the frame to the caller.  Every session's monitor has the configuration
\* held in the monitor variables above; a session keeps its own reading.

\* sender addresses
Keys == {"a", "b", "c"}
KeyOrder == << "a", "b", "c" >>

\* max_sessions: sessions the router holds at once
MaxSessions == 2
\* idle_timeout, in frames
IdleTimeout == 2
\* largest frame.num_samples drawn
MaxFrame == 2
\* the largest sample value
SampleMax == 1

\* the configurations of the receiver's monitors
RcConfigs ==
    { c \in Configs :
        /\ ConstructValid(c)
        /\ c.min_latency = Tick
        /\ c.fe_update_interval = 2 * Tick
        /\ c.max_scaling_delta = 5
        /\ c.in_rate = 8000 /\ c.out_rate = 44100
        /\ c.resampler /\ c.fe_alloc /\ c.scaling_ok }

\* distances tail - head met by a session's update(): below min_latency,
\* within the bounds, above max_latency
RcDistances == {0, 1, MaxNiq}

\*   live   - the session exists
\*   niq, has_niq - its monitor's niq_latency_ and has_niq_latency_
\*   failed - it has reported teardown (a failed read() or update())
\*   age    - frames begun since its last packet
\*   torn   - (no session) the key's last session was destroyed with its
\*            reading out of the latency bounds
NoSession == [ live |-> FALSE, niq |-> 0, has_niq |-> FALSE,
               failed |-> FALSE, age |-> 0, torn |-> FALSE ]
NewSession == [ NoSession EXCEPT !.live = TRUE ]

Live == { k \in Keys : sessions[k].live }

RcInit ==
    /\ \E c \in RcConfigs : Constructed(c)
    /\ limiter = LimiterOff
    /\ CtxNone
    /\ PwNone
    /\ sessions = [ k \in Keys |-> NoSession ]
    /\ session_count = [ k \in Keys |-> 0 ]
    /\ rc_pc = "idle"
    /\ snapshot = << >>
    /\ cursor = 0
    /\ frame = << >>
    /\ frame_size = 0
    /\ event = NoEvent

\* saturating sum of two samples
SatAdd(x, y) == Max(-SampleMax, Min(SampleMax, x + y))

\* the frame a session's read() leaves: num_samples samples, none if the
\* frame reader failed
SessionFrame(reader_ok, v, n) ==
    IF reader_ok THEN [ i \in 1 .. n |-> v ] ELSE << >>

\* the mixer adds a session's frame into the output frame
Mix(out, tmp) ==
    [ i \in 1 .. Min(Len(out), Len(tmp)) |-> SatAdd(out[i], tmp[i]) ]

\* the scan's idleness test: now - last_packet > idle_timeout
idle(age) == age > IdleTimeout

\* a lookup that finds nothing
lookup_miss(k) == FALSE

\* the router's lookup of sender k in the session map, under its mutex
lookup(k) == sessions[k].live

\* the router's dispatch(packet) for a packet from sender k
Dispatch(k) ==
    /\ rc_pc \in {"idle", "frame"}
    /\ LET had  == lookup(k)
           room == Cardinality(Live) < MaxSessions
       IN /\ sessions' =
                IF had THEN [sessions EXCEPT ![k].age = 0]
                ELSE IF room THEN [sessions EXCEPT ![k] = NewSession]
                ELSE sessions
          /\ session_count' =
                IF ~had /\ room THEN [session_count EXCEPT ![k] = @ + 1]
                ELSE session_count
          /\ event' = [NoEvent EXCEPT !.op = "dispatch", !.key = k,
                                      !.had = had, !.room = room,
                                      !.torn = sessions[k].torn]
    /\ UNCHANGED << rc_pc, snapshot, cursor, frame, frame_size >>
    /\ UNCHANGED << lmvars, ctxvars, pwvars >>

\* receiver read(frame) begins: the clock has advanced by a frame, the
\* sessions are scanned, the survivors are the snapshot, the frame is zeroed
RcBegin(n) ==
    /\ rc_pc = "idle"
    /\ LET aged(k) == [sessions[k] EXCEPT !.age = @ + 1]
           kept(k) == /\ sessions[k].live
                      /\ ~sessions[k].failed
                      /\ ~idle(aged(k).age)
       IN /\ sessions' =
                [ k \in Keys |->
                    IF kept(k) THEN aged(k)
                    ELSE IF sessions[k].live
                         THEN [NoSession EXCEPT
                                 !.torn = /\ sessions[k].has_niq
                                          /\ ~check_latency_(sessions[k].niq)]
                         ELSE sessions[k] ]
          /\ session_count' =
                [ k \in Keys |->
                    IF sessions[k].live /\ ~kept(k)
                    THEN session_count[k] - 1 ELSE session_count[k] ]
          /\ snapshot' = SelectSeq(KeyOrder, kept)
    /\ rc_pc' = "frame"
    /\ cursor' = 0
    /\ frame' = [ i \in 1 .. n |-> 0 ]
    /\ frame_size' = n
    /\ event' = [NoEvent EXCEPT
                   !.op = "begin",
                   !.count = Cardinality({ k \in Keys :
                                 /\ sessions[k].live /\ ~sessions[k].failed
                                 /\ idle(sessions[k].age + 1) })]
    /\ UNCHANGED << lmvars, ctxvars, pwvars >>

\* the next session of the snapshot is read and mixed
\*   reader_ok - the session's frame reader succeeds
\*   v         - the value of the samples it produced
RcRead(reader_ok, v) ==
    /\ rc_pc = "frame"
    /\ cursor < Len(snapshot)
    /\ LET k == snapshot[cursor + 1]
       IN IF read_returns(reader_ok)
          THEN /\ frame' = Mix(frame, SessionFrame(reader_ok, v, frame_size))
               /\ UNCHANGED sessions
          ELSE /\ sessions' = [sessions EXCEPT ![k].failed = TRUE]
               /\ UNCHANGED frame
    /\ cursor' = cursor + 1
    /\ event' = NoEvent
    /\ UNCHANGED << session_count, rc_pc, snapshot, frame_size >>
    /\ UNCHANGED << lmvars, ctxvars, pwvars >>

\* the next session's update(): a false result reports teardown
\*   latest - its queue holds a latest packet
\*   d      - that packet's end minus the depacketizer's next timestamp
\*   accept - the session's resampler accepts the coefficient
RcUpdate(latest, d, accept) ==
    /\ rc_pc = "frame"
    /\ cursor >= Len(snapshot)
    /\ cursor < 2 * Len(snapshot)
    /\ LET k == snapshot[cursor - Len(snapshot) + 1]
           s == sessions[k]
           r == update_niq_latency_(s.niq, s.has_niq, TRUE, latest, d, 0)
       IN sessions' =
            [sessions EXCEPT
               ![k].niq = r.niq,
               ![k].has_niq = r.has,
               ![k].failed = s.failed \/ ~update_returns(r.has, r.niq, accept)]
    /\ cursor' = cursor + 1
    /\ event' = NoEvent
    /\ UNCHANGED << session_count, rc_pc, snapshot, frame, frame_size >>
    /\ UNCHANGED << lmvars, ctxvars, pwvars >>

\* receiver read() returns the frame
RcDeliver ==
    /\ rc_pc = "frame"
    /\ cursor = 2 * Len(snapshot)
    /\ rc_pc' = "idle"
    /\ snapshot' = << >>
    /\ cursor' = 0
    /\ event' = [NoEvent EXCEPT !.op = "deliver", !.count = Len(snapshot)]
    /\ UNCHANGED << sessions, session_count, frame, frame_size >>
    /\ UNCHANGED << lmvars, ctxvars, pwvars >>

RcNext ==
    \/ \E k \in Keys : Dispatch(k)
    \/ \E n \in 1 .. MaxFrame : RcBegin(n)
    \/ \E ok \in BOOLEAN, v \in {0, SampleMax} : RcRead(ok, v)
    \/ \E latest \in BOOLEAN, d \in RcDistances, accept \in BOOLEAN :
           RcUpdate(latest, d, accept)
    \/ RcDeliver

SpecRecv == RcInit /\ [][RcNext]_vars

\* ------------------------------------------------------------------------
\* peer::Context: the reference counter that guards its destruction.

\* most incref() calls and most decref() calls of a run
MaxRefs == 5

\* ++ and -- on the counter, an int
I32Inc(x) == IF x = MaxI32 THEN MinI32 ELSE x + 1
I32Dec(x) == IF x = MinI32 THEN MaxI32 ELSE x - 1

\* Context::valid
valid == ctx_valid

\* an is_used that takes only a positive counter for use
is_used_positive == ref_counter_ > 0

\* Context::is_used
is_used == ref_counter_ # 0

\* the latency monitor of the other specifications, unused here
LMIdle ==
    /\ limiter = LimiterOff
    /\ \E c \in RcConfigs : ~c.fe_enable /\ Constructed(c)

\* Context::Context
CtxInit ==
    /\ LMIdle
    /\ RcClosed
    /\ PwNone
    /\ ctx_pc = "alive"
    /\ ctx_valid \in BOOLEAN
    /\ ref_counter_ = 0
    /\ increfs = 0
    /\ decrefs = 0
    /\ ctx_call = [op |-> "none", ret |-> FALSE]

\* Context::incref
CtxIncref ==
    /\ ctx_pc = "alive"
    /\ increfs < MaxRefs
    /\ IF ~valid
       THEN /\ ctx_pc' = "panic"
            /\ ctx_call' = [op |-> "incref", ret |-> FALSE]
            /\ UNCHANGED << ref_counter_, increfs >>
       ELSE /\ ref_counter_' = I32Inc(ref_counter_)
            /\ increfs' = increfs + 1
            /\ ctx_call' = [op |-> "incref", ret |-> TRUE]
            /\ UNCHANGED ctx_pc
    /\ UNCHANGED << ctx_valid, decrefs >>
    /\ UNCHANGED << lmvars, rcvars, pwvars >>

\* Context::decref
CtxDecref ==
    /\ ctx_pc = "alive"
    /\ decrefs < MaxRefs
    /\ IF ~valid
       THEN /\ ctx_pc' = "panic"
            /\ ctx_call' = [op |-> "decref", ret |-> FALSE]
            /\ UNCHANGED << ref_counter_, decrefs >>
       ELSE /\ ref_counter_' = I32Dec(ref_counter_)
            /\ decrefs' = decrefs + 1
            /\ ctx_call' = [op |-> "decref", ret |-> TRUE]
            /\ UNCHANGED ctx_pc
    /\ UNCHANGED << ctx_valid, increfs >>
    /\ UNCHANGED << lmvars, rcvars, pwvars >>

\* a call of Context::is_used from outside
CtxIsUsed ==
    /\ ctx_pc = "alive"
    /\ ctx_call' = [op |-> "is_used", ret |-> is_used]
    /\ UNCHANGED << ctx_pc, ctx_valid, ref_counter_, increfs, decrefs >>
    /\ UNCHANGED << lmvars, rcvars, pwvars >>

\* Context::~Context
CtxDestroy ==
    /\ ctx_pc = "alive"
    /\ ctx_pc' = IF is_used THEN "panic" ELSE "destroyed"
    /\ ctx_call' = [op |-> "destroy", ret |-> ~is_used]
    /\ UNCHANGED << ctx_valid, ref_counter_, increfs, decrefs >>
    /\ UNCHANGED << lmvars, rcvars, pwvars >>

CtxNext ==
    \/ CtxIncref
    \/ CtxDecref
    \/ CtxIsUsed
    \/ CtxDestroy

SpecCtx == CtxInit /\ [][CtxNext]_vars

\* ------------------------------------------------------------------------
\* The latency monitor with the clock of its rate limiter followed.

\* clock ticks in LogInterval
LogTicks == 2
\* clock ticks followed
MaxLogTime == 4

\* the clock advances by a tick; the limiter has a token again when a
\* LogInterval ends
Elapse ==
    /\ limiter.on
    /\ limiter.time < MaxLogTime
    /\ limiter' = [limiter EXCEPT
                     !.time = @ + 1,
                     !.tokens = IF (limiter.time + 1) % LogTicks = 0 THEN 1 ELSE @]
    /\ UNCHANGED << cfg, pc, valid_, fe_, update_interval_, update_pos_,
                    has_update_pos_, freq_coeff_, niq_latency_, e2e_latency_,
                    has_niq_latency_, has_e2e_latency_, target_latency_,
                    min_latency_, max_latency_, max_scaling_delta_, started,
                    scaling, fed, call >>
    /\ UNCHANGED << rcvars, ctxvars, pwvars >>

LogInit ==
    /\ limiter = LimiterOn
    /\ \E c \in RcConfigs : Constructed(c)
    /\ RcClosed
    /\ CtxNone
    /\ PwNone

\* the update() inputs drawn here: no wrapped timestamps, and readings
\* below, within and above the bounds
LogUpdateInputs ==
    { i \in UpdateInputs : i.head = 0 /\ i.d \in {0, 1, MaxNiq} }

LogNext ==
    \/ Stats
    \/ \E i \in ReadInputs : Read(i.ok, i.cts, i.now)
    \/ \E sp \in {0, MaxPos}, i \in LogUpdateInputs :
           Update(sp, i.st, i.latest, U32Add(i.head, i.d), i.head)
    \/ UpdateFeed
    \/ \E coeff \in FeOutputs, accept \in BOOLEAN, allow \in BOOLEAN :
           UpdateFinish(coeff, accept, allow)
    \/ Elapse

SpecLog == LogInit /\ [][LogNext]_vars

\* ------------------------------------------------------------------------
\* audio::PoisonWriter: forwards each frame to the wrapped writer and then
\* overwrites the caller's frame. The wrapped writer reads the frame it is
\* given and leaves it as it is.

\* most write() calls of a run
MaxWrites == 3

\* sample values
PwSamples == {-SampleMax, 0, SampleMax}

\* frames of up to MaxFrame samples
PwFrames == UNION { [ 1 .. n -> PwSamples ] : n \in 0 .. MaxFrame }

\* a loop body that writes silence
Poisoned_zero(fr, n) == [fr EXCEPT ![n + 1] = 0]

\* frame_data[n] = SampleMax, n counted from 0
Poisoned(fr, n) == [fr EXCEPT ![n + 1] = SampleMax]

\* PoisonWriter::PoisonWriter
PwInit ==
    /\ LMIdle
    /\ RcClosed
    /\ CtxNone
    /\ pw_pc = "idle"
    /\ pw_in = << >>
    /\ pw_frame = << >>
    /\ pw_n = 0
    /\ pw_seen = << >>
    /\ pw_calls = 0

\* PoisonWriter::write up to its loop: writer_.write(frame), n = 0
PwWrite(f) ==
    /\ pw_pc = "idle"
    /\ pw_calls < MaxWrites
    /\ pw_calls' = pw_calls + 1
    /\ pw_in' = f
    /\ pw_frame' = f
    /\ pw_seen' = << f >>
    /\ pw_n' = 0
    /\ pw_pc' = "loop"
    /\ UNCHANGED << lmvars, rcvars, ctxvars >>

\* one iteration of the loop
PwPoison ==
    /\ pw_pc = "loop"
    /\ pw_n < Len(pw_frame)
    /\ pw_frame' = Poisoned(pw_frame, pw_n)
    /\ pw_n' = pw_n + 1
    /\ UNCHANGED << pw_pc, pw_in, pw_seen, pw_calls >>
    /\ UNCHANGED << lmvars, rcvars, ctxvars >>

\* the loop ends and write() returns
PwReturn ==
    /\ pw_pc = "loop"
    /\ ~ (pw_n < Len(pw_frame))
    /\ pw_pc' = "idle"
    /\ UNCHANGED << pw_in, pw_frame, pw_n, pw_seen, pw_calls >>
    /\ UNCHANGED << lmvars, rcvars, ctxvars >>

PwNext ==
    \/ \E f \in PwFrames : PwWrite(f)
    \/ PwPoison
    \/ PwReturn

SpecPoison == PwInit /\ [][PwNext]_vars

\* ------------------------------------------------------------------------
\* Claims about the latency monitor.

\* the last call was an update() that has returned
UpdateReturned == call.op = "update" /\ call.ret \in {"true", "false"}

\* C1: in a valid monitor every scaling coefficient handed to the resampler,
\* at construction and by update(), satisfies |r - 1| <= max_scaling_delta.
C1_ClampInvariant ==
    (valid_ /\ scaling.called) =>
        Abs(scaling.coeff - CoeffOne) <= max_scaling_delta_

\* C2: an update() that has a niq reading returns false when the reading is
\* below min_latency or above max_latency; when it is within the bounds
\* (inclusive) it returns false only if the resampler rejected the coefficient.
C2_BoundsCheck ==
    (UpdateReturned /\ call.had_niq) =>
        /\ (niq_latency_ < min_latency_ \/ niq_latency_ > max_latency_)
               => call.ret = "false"
        /\ (min_latency_ <= niq_latency_ /\ niq_latency_ <= max_latency_)
               => (call.ret = "false" => (call.rate /\ ~call.accept))

\* an update() with a reading equal to max_latency passed the bounds check
\* and returned true
C2_Witness ==
    /\ UpdateReturned /\ call.had_niq /\ call.ret = "true"
    /\ niq_latency_ = max_latency_
    /\ call.rate

\* C4: the niq reading of an update() is present only if the depacketizer is
\* started and the queue is non-empty at that call; with an empty queue the
\* call has no reading and performs no bounds check and no rate-control step.
C4_NiqAbsentOnEmptyQueue ==
    (call.op = "update" /\ call.ret # "panic") =>
        /\ call.had_niq => (started /\ call.latest)
        /\ ~call.latest => (~call.checked /\ ~call.rate)

\* the interval boundaries update_pos0, update_pos0 + interval, ... that are
\* at or before stream position sp (both small enough not to wrap)
Crossings(sp, pos0, interval) ==
    IF sp < pos0 THEN 0 ELSE (sp - pos0) \div interval + 1

\* C5: with a positive update_interval the estimator is fed once per
\* update_interval of stream position: the first update() that reaches rate
\* control feeds it once, a later one once per interval boundary crossed, and
\* when update() returns
\*     stream_position < update_pos <= stream_position + update_interval.
\* A run of non-decreasing positions that has kept this so far calls
\* update() with update_pos <= stream_position + update_interval: the later
\* calls are stated for those.
C5_Cadence ==
    (call.op = "update" /\ call.rate /\ update_interval_ > 0) =>
        LET later == /\ ~call.first
                     /\ \/ U32Ge(call.sp, call.pos0)
                        \/ timestamp_diff(call.pos0, call.sp) \in 1 .. update_interval_
        IN /\ call.first => call.feeds <= 1
           /\ (later /\ call.sp >= 0 /\ call.pos0 >= 0) =>
                  call.feeds <= Crossings(call.sp, call.pos0, update_interval_)
           /\ (call.ret # "pending" /\ (call.first \/ later)) =>
                  /\ ~U32Ge(call.sp, update_pos_)
                  /\ timestamp_diff(update_pos_, call.sp) \in 1 .. update_interval_
                  /\ call.first => call.feeds = 1
                  /\ (later /\ call.sp >= 0 /\ call.pos0 >= 0) =>
                         call.feeds = Crossings(call.sp, call.pos0, update_interval_)

\* C6: when the resampler rejects the coefficient update() returns false;
\* when it accepts and the bounds check passed update() returns true.
C6_ResamplerReject ==
    (UpdateReturned /\ call.rate) =>
        /\ call.checked
        /\ (call.ret = "true") = call.accept

\* an update() whose reading is within the bounds returned false on the
\* resampler's rejection of a clamped coefficient
C6_Witness ==
    /\ UpdateReturned /\ call.rate /\ call.ret = "false"
    /\ min_latency_ <= niq_latency_ /\ niq_latency_ <= max_latency_
    /\ Abs(scaling.coeff - CoeffOne) <= Abs(max_scaling_delta_)

\* the validity the configuration calls for
ConfigAcceptable(c) ==
    /\ c.target_latency > 0
    /\ c.min_latency <= c.target_latency
    /\ c.target_latency <= c.max_latency
    /\ c.fe_enable =>
         /\ c.fe_update_interval > 0
         /\ c.fe_alloc
         /\ c.in_rate # 0 /\ c.out_rate # 0
         /\ c.scaling_ok

\* the constructor panicked (rate adaptation asked for with a null
\* resampler): no monitor was made
ConstructionPanicked == pc = "panic" /\ call.op = "none"

\* C7: a constructed monitor is valid exactly when the configuration is
\* acceptable, and stays so under every sequence of read(), update() and
\* stats().
C7_Validity == ~ConstructionPanicked => valid_ = ConfigAcceptable(cfg)

\* a valid monitor with rate adaptation has served read() and update()
C7_Witness ==
    /\ valid_ /\ cfg.fe_enable
    /\ UpdateReturned /\ call.rate /\ has_e2e_latency_

\* C8: with fe_enable false set_scaling is never called, no estimator is
\* fed, and update() returns false only on the bounds check.
C8_NoRateAdaptation ==
    ~cfg.fe_enable =>
        /\ ~scaling.called
        /\ ~fed
        /\ ~fe_
        /\ (UpdateReturned /\ call.ret = "false") =>
               /\ call.checked
               /\ niq_latency_ < min_latency_ \/ niq_latency_ > max_latency_

\* a monitor without rate adaptation and with a null resampler has passed
\* an update() through the bounds check
C8_Witness ==
    /\ ~cfg.fe_enable /\ ~cfg.resampler
    /\ UpdateReturned /\ call.checked /\ call.ret = "true"

\* C9: after a successful read() the e2e reading is present and equals
\* ns_to_media_ts(now - capture) if the frame's capture timestamp is
\* non-zero, and is absent if it is zero.
C9_E2eReading ==
    (call.op = "read" /\ call.ret = "true") =>
        IF call.cts # 0
        THEN /\ has_e2e_latency_
             /\ e2e_latency_ = ns_2_rtp_timestamp(cfg.in_rate, call.now - call.cts)
        ELSE ~has_e2e_latency_

\* ------------------------------------------------------------------------
\* Claims about the receiver.

\* C10: every receiver read(frame) produces exactly frame.num_samples
\* samples, whatever sessions are live, appear, fail or are torn down; with
\* no sessions the samples are all zero.
C10_FullFrame ==
    /\ rc_pc = "frame" => Len(frame) = frame_size
    /\ event.op = "deliver" =>
           /\ frame_size > 0
           /\ Len(frame) = frame_size
           /\ \A i \in 1 .. Len(frame) : frame[i] \in 0 .. SampleMax
           /\ event.count = 0 => \A i \in 1 .. Len(frame) : frame[i] = 0

\* a frame of the largest size has been delivered after a session's read()
\* failed and another's samples were mixed
C10_Witness ==
    /\ event.op = "deliver" /\ event.count > 1
    /\ Len(frame) = MaxFrame /\ frame[MaxFrame] = SampleMax
    /\ \E k \in Keys : sessions[k].failed /\ ~sessions[k].has_niq

\* ------------------------------------------------------------------------
\* Claims about the context.

\* C11: after any sequence of incref() and decref() on a valid context,
\* is_used() is true exactly when increfs minus decrefs is non-zero;
\* destroying the context while that number is non-zero panics, and
\* destroying it when it is zero does not.
C11_RefCounter ==
    ctx_valid =>
        /\ ctx_call.op = "is_used" => (ctx_call.ret = (increfs - decrefs # 0))
        /\ ctx_call.op = "destroy" =>
               /\ increfs - decrefs # 0 => ctx_pc = "panic"
               /\ increfs - decrefs = 0 => ctx_pc = "destroyed"

\* a context that was attached to and detached from as often was destroyed
\* without a panic
C11_Witness ==
    /\ ctx_valid /\ ctx_call.op = "destroy" /\ ctx_pc = "destroyed"
    /\ increfs > 1 /\ increfs = decrefs

\* ------------------------------------------------------------------------
\* Claims about session lifetime.

\* C13: at every instant, with packets dispatched between any two steps of
\* the audio context, the router holds exactly one session for every sender
\* that has one, and none for the others: never two for the same sender.
C13_OneSessionPerKey ==
    rc_pc # "closed" =>
        \A k \in Keys :
            /\ session_count[k] \in {0, 1}
            /\ (session_count[k] = 1) = sessions[k].live

\* while a frame is mixed the router is full, each of its senders has one
\* session, and a sender whose session was destroyed has none
C13_Witness ==
    /\ rc_pc = "frame" /\ cursor > 0
    /\ Cardinality(Live) = MaxSessions
    /\ \A k \in Live : session_count[k] = 1
    /\ \E k \in Keys \ Live : sessions[k].torn /\ session_count[k] = 0

\* ------------------------------------------------------------------------
\* More claims about the latency monitor.

\* the distance from head to tail on the 32-bit timestamp circle, for a tail
\* less than half the range away
TrueDistance(tail, head) ==
    CHOOSE d \in NiqDistances : U32Add(head, d) = tail

\* C14: the niq reading of an update() that found a latest packet is the
\* true signed distance tail - head, also when tail and head straddle the
\* wrap from 2^32 - 1 to 0, and the bounds check is applied to that value.
C14_WrapSafeNiq ==
    (call.op = "update" /\ call.ret # "panic" /\ started /\ call.latest) =>
        LET d == TrueDistance(call.tail, call.head)
        IN /\ has_niq_latency_ /\ niq_latency_ = d
           /\ call.had_niq /\ call.checked
           /\ UpdateReturned =>
                  /\ (d < min_latency_ \/ d > max_latency_) => call.ret = "false"
                  /\ (min_latency_ <= d /\ d <= max_latency_) =>
                         (call.ret = "false" => (call.rate /\ ~call.accept))

\* an update() has passed the bounds check with a head just before the wrap
\* and a tail just after it
C14_Witness ==
    /\ UpdateReturned /\ call.ret = "true" /\ call.latest
    /\ call.head < 0 /\ call.tail >= 0
    /\ niq_latency_ > 0

\* C15: at most one latency record is emitted per LogInterval, and only by
\* an update() that had a reading, passed the bounds check and, with rate
\* adaptation on, had its coefficient accepted.
C15_ReportRate ==
    /\ limiter.reports <= limiter.time \div LogTicks + 1
    /\ call.reported =>
           /\ UpdateReturned /\ call.ret = "true"
           /\ call.had_niq /\ call.checked
           /\ min_latency_ <= niq_latency_ /\ niq_latency_ <= max_latency_
           /\ fe_ => (call.rate /\ call.accept)

\* an update() has emitted the second record, in the second LogInterval
C15_Witness ==
    /\ call.reported /\ limiter.reports = 2
    /\ limiter.time \div LogTicks = 1
    /\ fe_ /\ call.accept

\* what update() reads and writes besides its arguments: the niq reading and
\* the rate-control state
lowvars == << niq_latency_, has_niq_latency_, started, update_pos_,
              has_update_pos_, freq_coeff_, scaling, fed >>

\* read() and stats() leave the state update() works with alone
HighStepsKeepLow ==
    (call' # call /\ call'.op \in {"read", "stats"}) => UNCHANGED lowvars

\* the reading an update() works with, the sample it feeds the estimator
\* and the value it returns, as functions of its arguments, of the queue and
\* the depacketizer, of the resampler's answer, and of the state earlier
\* update() calls left; the coefficient handed to the resampler is the one
\* update_scaling_ kept
UpdateIsFunction ==
    (valid_ /\ call.op = "update") =>
        /\ (started /\ call.latest) =>
               niq_latency_ = TrueDistance(call.tail, call.head)
        /\ call.rate =>
               call.sample = (IF niq_latency_ < 0 THEN 0 ELSE niq_latency_)
        /\ UpdateReturned =>
               /\ (call.ret = "true") =
                      (call.had_niq =>
                          /\ min_latency_ <= niq_latency_
                          /\ niq_latency_ <= max_latency_
                          /\ fe_ => call.accept)
               /\ call.rate => (scaling.called /\ scaling.coeff = freq_coeff_)

\* C17: the coefficients handed to the resampler and the results of update()
\* are a function of the configuration and of the inputs of the update()
\* calls: read(), stats(), capture timestamps and the clock do not reach
\* them.
C17_Deterministic ==
    /\ []UpdateIsFunction
    /\ [][HighStepsKeepLow]_vars

\* after a read() that took an e2e reading, an update() has fed the niq
\* reading to the estimator and handed the resampler a coefficient other
\* than 1.0
C17_Witness ==
    /\ valid_ /\ has_e2e_latency_ /\ e2e_latency_ # niq_latency_
    /\ UpdateReturned /\ call.rate /\ call.ret = "true"
    /\ scaling.coeff # CoeffOne

\* C18: every read(), update() or stats() on an invalid monitor panics
\* before it touches the frame reader, the queue, the depacketizer, the
\* estimator or the resampler.
C18_InvalidPanics ==
    (~valid_ /\ call.op # "none") =>
        /\ pc = "panic"
        /\ call = [NoCall EXCEPT !.op = call.op, !.ret = "panic"]
        /\ ~started /\ ~has_niq_latency_ /\ ~has_e2e_latency_
        /\ ~fed /\ ~has_update_pos_
        /\ scaling.called => (scaling.coeff = CoeffOne /\ InitScalingCalls(cfg))

\* an update() on a monitor whose initial scaling the resampler rejected has
\* panicked
C18_Witness ==
    /\ ~valid_ /\ call.op = "update" /\ call.ret = "panic"
    /\ fe_ /\ scaling.called /\ ~cfg.scaling_ok

\* where update_pos_ stood when the loop of the last update() began
LoopStart == IF call.first THEN call.sp ELSE call.pos0

\* C19: update() terminates: every iteration of the loop that feeds the
\* estimator moves update_pos_ forward, by a positive interval and without
\* wrapping around, so that it passes stream_position after finitely many.
C19_LoopEnds ==
    (valid_ /\ call.op = "update" /\ call.rate /\ call.feeds > 0) =>
        /\ update_interval_ > 0
        /\ U32Ge(update_pos_, LoopStart) /\ update_pos_ # LoopStart

\* C20: when stream_position advances through 2^32 - 1 to 0 the estimator
\* keeps being fed once per update_interval: an update() after the first
\* whose position has reached update_pos_, in the wrap-safe order, feeds it
\* once per interval boundary reached (not more, and not less once it
\* returns), and one whose position has not reached it does not feed it.
C20_CadenceAcrossWrap ==
    (valid_ /\ call.op = "update" /\ call.rate /\ ~call.first
        /\ update_interval_ > 0) =>
        LET ahead == timestamp_diff(call.sp, call.pos0)
            due   == IF ahead < 0 THEN 0 ELSE ahead \div update_interval_ + 1
        IN /\ call.feeds <= due
           /\ call.ret # "pending" => call.feeds = due

\* ------------------------------------------------------------------------
\* Claims about what a failing call leaves alone.

\* the queue latency reading is outside [min_latency, max_latency]
NiqOutOfBounds ==
    has_niq_latency_ /\ (niq_latency_ < min_latency_ \/ niq_latency_ > max_latency_)

\* the step ends an update() that returned false with the reading out of bounds
RejectedForBounds ==
    /\ call'.op = "update" /\ call'.ret = "false"
    /\ NiqOutOfBounds'

\* the step leaves the rate control as it was
RateControlKept ==
    /\ UNCHANGED << fed, update_pos_, has_update_pos_, freq_coeff_, scaling >>
    /\ limiter'.reports = limiter.reports

\* C21: an update() that returns false because the queue latency is out of
\* bounds does not feed the estimator, leaves update_pos_, has_update_pos_
\* and freq_coeff_ alone, does not call set_scaling and emits no record.
C21_RejectKeepsRateControl ==
    [][ RejectedForBounds =>
          /\ RateControlKept
          /\ call'.feeds = 0 /\ ~call'.rate
          /\ ~call'.accept /\ ~call'.reported ]_vars

\* an update() was rejected for the bounds by a monitor whose rate control
\* had run before: the estimator was fed, update_pos_ and the scaling set
C21_Witness ==
    /\ valid_ /\ fe_ /\ pc = "idle"
    /\ call.op = "update" /\ call.ret = "false" /\ call.checked
    /\ NiqOutOfBounds
    /\ fed /\ has_update_pos_ /\ scaling.called /\ freq_coeff_ # CoeffOne

\* ------------------------------------------------------------------------
\* Claims about the estimator's samples.

\* C22: the latency sample update_scaling_ feeds to the estimator is never
\* negative: it is the queue latency reading, or 0 for a negative reading,
\* which passes the bounds check only under a negative min_latency; the
\* stored reading keeps its negative value.
C22_SampleNonNegative ==
    (call.op = "update" /\ call.rate) =>
        /\ call.sample >= 0
        /\ call.sample = IF niq_latency_ < 0 THEN 0 ELSE niq_latency_
        /\ niq_latency_ < 0 => min_latency_ < 0
        /\ (started /\ call.latest) =>
               niq_latency_ = timestamp_diff(call.tail, call.head)

\* the estimator was fed the sample 0 for a reading that is still negative
C22_Witness ==
    /\ call.op = "update" /\ call.rate /\ call.feeds > 0
    /\ started /\ call.latest
    /\ niq_latency_ < 0 /\ call.sample = 0

\* ------------------------------------------------------------------------
\* Claims about read().

\* the step ends a read() that returned
ReadReturned == call'.op = "read" /\ call'.ret \in {"true", "false"}

\* C23: a read() whose frame reader fails returns false and leaves
\* e2e_latency_ and has_e2e_latency_ as they were; no read() changes the
\* queue latency reading, the estimator, update_pos_ or the scaling.
C23_ReadFailure ==
    [][ ReadReturned =>
          /\ UNCHANGED << niq_latency_, has_niq_latency_, fed, update_pos_,
                          has_update_pos_, freq_coeff_, scaling >>
          /\ ~call'.reader_ok =>
                 /\ call'.ret = "false"
                 /\ UNCHANGED << e2e_latency_, has_e2e_latency_ >> ]_vars

\* a read() failed on a monitor that holds an e2e reading, a queue latency
\* reading and a scaling set by update()
C23_Witness ==
    /\ call.op = "read" /\ call.ret = "false" /\ ~call.reader_ok
    /\ has_e2e_latency_ /\ e2e_latency_ # 0
    /\ has_niq_latency_ /\ fed /\ has_update_pos_ /\ scaling.called

\* ------------------------------------------------------------------------
\* Claims about the context's counter.

\* C24: the reference counter never underflows: it equals the number of
\* incref() calls minus the number of decref() calls and is never negative,
\* so decref() is never applied to a counter that is zero.
C24_NoUnderflow ==
    ctx_pc # "none" =>
        /\ ref_counter_ = increfs - decrefs
        /\ ref_counter_ >= 0

\* ------------------------------------------------------------------------
\* Claims about the poison writer.

\* C25: write(frame) gives the wrapped writer the frame once, with the
\* samples it received, and overwrites the frame only after that: the
\* samples below n are SampleMax and the others are still the caller's, and
\* when write() has returned all num_samples samples are SampleMax.
C25_ForwardThenPoison ==
    pw_calls > 0 =>
        /\ pw_seen = << pw_in >>
        /\ Len(pw_frame) = Len(pw_in)
        /\ pw_n <= Len(pw_frame)
        /\ \A i \in 1 .. Len(pw_frame) :
               pw_frame[i] = IF i <= pw_n THEN SampleMax ELSE pw_in[i]
        /\ pw_pc = "idle" =>
               \A i \in 1 .. Len(pw_frame) : pw_frame[i] = SampleMax

\* write() returned for a frame of several samples, none of them SampleMax
\* when the wrapped writer saw them
C25_Witness ==
    /\ pw_pc = "idle" /\ pw_calls > 0
    /\ Len(pw_in) > 1
    /\ \A i \in 1 .. Len(pw_in) : pw_seen[1][i] # SampleMax
    /\ \A i \in 1 .. Len(pw_frame) : pw_frame[i] = SampleMax

====
